---- MODULE Spec2Model ----
(***************************************************************************)
(* Crawl-job orchestration of llm-codes: the crawl start endpoint          *)
(* (src/unnamed/part_000), the manifest seed endpoint                      *)
(* (src/src/app/api/crawl/seed/route.ts) and the live status stream        *)
(* (src/src/app/api/crawl/[jobId]/status/route.ts), over the cache         *)
(* service (tiered cache, job store, URL manifest store, circuit breaker). *)
(* Times are in milliseconds, as in the source.                            *)
(***************************************************************************)
EXTENDS Integers, Sequences, FiniteSets, TLC

(* ------------------------------ bounds --------------------------------- *)
\* HTTP requests (start + seed) made in one run; also the number of job ids.
MaxRequests == 2
\* Longest candidate page-URL list a seed request of SpecStart carries.
MaxSeedLen == 3
\* Status streams opened in one run.
MaxStreams == 2
\* Provider polls made by all status streams together in one run (the timed
\* specification is bounded by the polling ceiling instead).
MaxPolls == 2
\* The polling time SpecErrors covers, in ms.
MaxErrorTime == 12000
\* Start requests in one run of SpecBreaker, and the time it covers, in ms.
MaxBreakerRequests == 4
MaxBreakerTime == 60000
\* Lock tokens generated in one run of SpecLock.
MaxHolders == 3
\* The time in which the streams of SpecCursor poll, in ms.
MaxCursorTime == 6000

(* ------------------------- program constants --------------------------- *)
pollInterval == 2000
maxPollingTime == 480000
maxConsecutiveErrors == 5
maxStallTime == 60000
absoluteMaxStallTime == 120000
\* minProgressRate = 1 / 60000 pages per ms, kept as its denominator.
minProgressRateDenominator == 60000
\* AbortSignal.timeout(30000) of the status request.
statusFetchTimeout == 30000
\* Math.min(..., 30000) of the backoff delay.
maxBackoffDelay == 30000
\* hasExceededMaxTime = totalRunTime > 480000
maxRunTime == 480000
\* cachedUrls.slice(0, Math.min(3, cachedUrls.length))
sampleSize == 3
MIN_CONTENT_LENGTH == 200
MAX_ALLOWED_URLS == 2000
\* const { url, limit = 10, force = false } = body
defaultLimit == 10

(* ------------------------------ values --------------------------------- *)
\* Page contents: a text tag and its length (content.length).
Content(t, n) == [text |-> t, len |-> n]
EmptyContent == Content("", 0)
ShortContent == Content("s", 199)
LongA == Content("A", 200)
LongB == Content("B", 5001)
\* What cacheService.get returns for an absent key (null).
NullContent == Content("<null>", 0 - 1)

PageUrls == {"https://docs.a.dev/p1", "https://docs.a.dev/p2"}
DocUrl == "https://docs.a.dev/"
BadUrl == "http://evil.test/"
StartUrlStrings == {DocUrl, BadUrl}

\* isValidDocumentationUrl(url): the allow-list check (external collaborator).
isValidDocumentationUrl(u) == u = DocUrl

\* The url field of a request body: absent, a number, or a string.
UrlInputs ==
  {[kind |-> "missing", s |-> ""], [kind |-> "number", s |-> ""], [kind |-> "string", s |-> ""]}
    \cup {[kind |-> "string", s |-> u] : u \in StartUrlStrings}
RECURSIVE SeqsUpTo(_, _)
SeqsUpTo(S, n) ==
  IF n = 0 THEN {<<>>}
  ELSE LET shorter == SeqsUpTo(S, n - 1)
       IN shorter \cup {Append(q, x) : q \in {r \in shorter : Len(r) = n - 1}, x \in S}

Min(a, b) == IF a < b THEN a ELSE b

JobIds == 1..MaxRequests
Streams == 1..MaxStreams

(* ------------------------------ state ---------------------------------- *)
VARIABLES
  now,        \* Date.now()
  cache,      \* Tiered Cache: page URL -> content, NullContent when absent
  manifest,   \* URL Manifest Store: start URL -> [present, urls]
  jobs,       \* Job Store: job id -> CrawlJob metadata (status "absent" when none)
  results,    \* Job Store result pages: job id -> page number -> batch
  breaker,    \* CircuitState of the provider's breaker
  nreq,       \* HTTP requests (start, seed) handled so far
  resp,       \* the response of the last start or seed request
  streams,    \* the status streams: locals of ReadableStream.start and its output
  inflight,   \* start requests awaiting the provider's answer to POST /crawl
  locks       \* the distributed lock: the lock store and the tokens handed out

vars == <<now, cache, manifest, jobs, results, breaker, nreq, resp, streams, inflight, locks>>

(* ----------------------- cache service (store layer) ------------------- *)
\* cacheService.get(url): the content or null.
cacheGet(c, u) == c[u]
\* cacheService.set(url, content): whole-value replacement.
cacheSet(c, u, v) == [c EXCEPT ![u] = v]
\* cacheService.mget(urls): a map url -> content | null over the given urls.
mget(c, urls) == [u \in {urls[i] : i \in 1..Len(urls)} |-> c[u]]

NoManifest == [present |-> FALSE, urls |-> <<>>]
\* cacheService.getCrawlUrlMap(startUrl): the urls or null.
getCrawlUrlMap(m, u) == m[u]
\* cacheService.setCrawlUrlMap(startUrl, urls): overwrites the manifest.
setCrawlUrlMap(m, u, urls) == [m EXCEPT ![u] = [present |-> TRUE, urls |-> urls]]

NoJob ==
  [id |-> 0, url |-> "", limit |-> 0, status |-> "absent", totalPages |-> 0,
   completedPages |-> 0, failedPages |-> 0, creditsUsed |-> 0,
   hasCrawledUrls |-> FALSE, crawledUrls |-> <<>>, next |-> "", lastPageNumber |-> 0]
\* cacheService.getCrawlJob(id): the metadata or null (NoJob).
getCrawlJob(js, id) == js[id]
\* cacheService.setCrawlJob(id, metadata)
setCrawlJob(js, id, meta) == [js EXCEPT ![id] = meta]
\* cacheService.updateCrawlJobStatus(id, updates): read-merge-write of the fields
\* named by updates; a job that is gone is not recreated.
updateCrawlJobStatus(js, id, updates) ==
  IF js[id].status = "absent" THEN js
  ELSE [js EXCEPT ![id] =
          [f \in DOMAIN js[id] |->
             IF f \in DOMAIN updates THEN updates[f] ELSE js[id][f]]]

(* --------------------------- circuit breaker --------------------------- *)
failureThreshold == 2
successThreshold == 1
breakerTimeout == 60000

ClosedBreaker == [state |-> "closed", failureCount |-> 0, successCount |-> 0, openedAt |-> 0]
OpenBreaker == [state |-> "open", failureCount |-> failureThreshold, successCount |-> 0, openedAt |-> 0]

\* The state the breaker is in at time t: an open breaker whose timeout has
\* elapsed admits trial requests (half_open).
breakerStateAt(b, t) ==
  IF b.state = "open" /\ t - b.openedAt >= breakerTimeout THEN "half_open" ELSE b.state

canRequest(b, t) == breakerStateAt(b, t) # "open"

recordFailure(b, t) ==
  LET st == breakerStateAt(b, t) IN
  CASE st = "closed" ->
         IF b.failureCount + 1 >= failureThreshold
         THEN [state |-> "open", failureCount |-> b.failureCount + 1,
               successCount |-> 0, openedAt |-> t]
         ELSE [b EXCEPT !.failureCount = b.failureCount + 1]
    [] st = "half_open" ->
         [state |-> "open", failureCount |-> b.failureCount, successCount |-> 0, openedAt |-> t]
    [] OTHER -> b

recordSuccess(b, t) ==
  LET st == breakerStateAt(b, t) IN
  CASE st = "closed" -> [b EXCEPT !.failureCount = 0]
    [] st = "half_open" ->
         IF b.successCount + 1 >= successThreshold
         THEN ClosedBreaker
         ELSE [b EXCEPT !.state = "half_open", !.successCount = b.successCount + 1]
    [] OTHER -> b

(* --------------------------- HTTP responses ---------------------------- *)
\* A JSON field of a request body: absent, a number, or a string.
Field(k, s) == [kind |-> k, s |-> s]
\* A pageUrls field: absent, or an array of page urls.
ArrayField(isArray, items) == [isArray |-> isArray, items |-> items]
\* The body of a start request {url, force} or a seed request {url, pageUrls}.
Request(url, force, pageUrls) == [url |-> url, force |-> force, pageUrls |-> pageUrls]

\* The last start or seed request and its response: HTTP status, the body
\* fields of the response, and the number of provider calls the handler made.
Response(op, req, code, jobId, isCached, stored, missing, calls) ==
  [op |-> op, req |-> req, status |-> code, jobId |-> jobId, cached |-> isCached,
   stored |-> stored, missing |-> missing, calls |-> calls]
NoResponse ==
  Response("none", Request(Field("missing", ""), FALSE, ArrayField(FALSE, <<>>)),
           0, 0, FALSE, 0, 0, 0)

(* ------------------------------ crawl start ---------------------------- *)
\* What the provider answers to POST /crawl.
StartOutcome(kind, code, credits) == [kind |-> kind, code |-> code, credits |-> credits]
StartOutcomes ==
  {StartOutcome("job", 200, 0), StartOutcome("job", 200, 1), StartOutcome("nojob", 200, 0),
   StartOutcome("http", 429, 0), StartOutcome("http", 500, 0), StartOutcome("throw", 0, 0)}

\* sampleOf that samples no url.
sampleOfNone(urls) == <<>>

\* sample.every(u => cached.get(u) !== null) over the first min(3, n) urls.
sampleOf(urls) == SubSeq(urls, 1, Min(sampleSize, Len(urls)))
allCached(c, urls) ==
  LET sample == sampleOf(urls)
      got == mget(c, sample)
  IN \A i \in 1..Len(sample) : got[sample[i]] # NullContent

\* cacheFirstHit that does not look at force.
cacheFirstHitAnyForce(force, u) ==
  /\ getCrawlUrlMap(manifest, u).present
  /\ Len(getCrawlUrlMap(manifest, u).urls) > 0
  /\ allCached(cache, getCrawlUrlMap(manifest, u).urls)

\* cacheFirstHit that never takes the cache-first branch.
cacheFirstHitNever(force, u) == FALSE

\* The cache-first branch is taken.
cacheFirstHit(force, u) ==
  /\ ~force
  /\ getCrawlUrlMap(manifest, u).present
  /\ Len(getCrawlUrlMap(manifest, u).urls) > 0
  /\ allCached(cache, getCrawlUrlMap(manifest, u).urls)

\* cacheHitJob with the page counts of a fresh remote job.
cacheHitJobZeroCounts(id, u, urls) ==
  [id |-> id, url |-> u, limit |-> Min(defaultLimit, MAX_ALLOWED_URLS), status |-> "cache_hit",
   totalPages |-> 0, completedPages |-> 0, failedPages |-> 0,
   creditsUsed |-> 0, hasCrawledUrls |-> TRUE, crawledUrls |-> urls, next |-> "",
   lastPageNumber |-> 0]

cacheHitJob(id, u, urls) ==
  [id |-> id, url |-> u, limit |-> Min(defaultLimit, MAX_ALLOWED_URLS), status |-> "cache_hit",
   totalPages |-> Len(urls), completedPages |-> Len(urls), failedPages |-> 0,
   creditsUsed |-> 0, hasCrawledUrls |-> TRUE, crawledUrls |-> urls, next |-> "",
   lastPageNumber |-> 0]

crawlingJob(id, u, credits) ==
  [id |-> id, url |-> u, limit |-> defaultLimit, status |-> "crawling",
   totalPages |-> 0, completedPages |-> 0, failedPages |-> 0,
   creditsUsed |-> credits, hasCrawledUrls |-> FALSE, crawledUrls |-> <<>>, next |-> "",
   lastPageNumber |-> 0]

\* providerServerError that takes no status for a server error.
providerServerErrorNever(code) == FALSE

\* providerServerError that takes every error status for a server error.
providerServerErrorAny(code) == TRUE

\* response.status >= 500: the error statuses reported to the circuit breaker.
providerServerError(code) == code >= 500

\* The start handler from the provider's answer out to POST /crawl onwards,
\* for the request req that gets job id id.
providerAnswered(id, req, out) ==
  CASE out.kind = "job" ->
         /\ jobs' = setCrawlJob(jobs, id, crawlingJob(id, req.url.s, out.credits))
         /\ breaker' = recordSuccess(breaker, now)
         /\ resp' = Response("start", req, 200, id, FALSE, 0, 0, 1)
    [] out.kind = "nojob" ->
         /\ resp' = Response("start", req, 500, 0, FALSE, 0, 0, 1)
         /\ UNCHANGED <<jobs, breaker>>
    [] out.kind = "http" ->
         /\ breaker' = IF providerServerError(out.code)
                        THEN recordFailure(breaker, now) ELSE breaker
         /\ resp' = Response("start", req, out.code, 0, FALSE, 0, 0, 1)
         /\ UNCHANGED jobs
    [] OTHER ->
         /\ breaker' = recordFailure(breaker, now)
         /\ resp' = Response("start", req, 500, 0, FALSE, 0, 0, 1)
         /\ UNCHANGED jobs

\* POST /api/crawl/start with body {url, force}; out is the provider's answer
\* if the provider is called.
startRequest(url, force, out) ==
  /\ nreq' = nreq + 1
  /\ LET id == nreq + 1
         u == url.s
         req == Request(url, force, ArrayField(FALSE, <<>>))
     IN
     IF ~(url.kind = "string" /\ isValidDocumentationUrl(u)) THEN
       /\ resp' = Response("start", req, 400, 0, FALSE, 0, 0, 0)
       /\ UNCHANGED <<jobs, breaker>>
     ELSE IF ~canRequest(breaker, now) THEN
       /\ resp' = Response("start", req, 503, 0, FALSE, 0, 0, 0)
       /\ UNCHANGED <<jobs, breaker>>
     ELSE IF cacheFirstHit(force, u) THEN
       /\ jobs' = setCrawlJob(jobs, id, cacheHitJob(id, u, getCrawlUrlMap(manifest, u).urls))
       /\ resp' = Response("start", req, 200, id, TRUE, 0, 0, 0)
       /\ UNCHANGED breaker
     ELSE providerAnswered(id, req, out)
  /\ UNCHANGED <<now, cache, manifest, results, streams, inflight, locks>>

\* A start request, while the run's job ids last.
Start(url, force, out) == nreq < MaxRequests /\ startRequest(url, force, out)

\* A start request that calls the provider, up to its await of the answer to
\* POST /crawl: validation, the breaker gate and the cache-first check.
BeginStart(url, force) ==
  /\ nreq < MaxRequests
  /\ url.kind = "string" /\ isValidDocumentationUrl(url.s)
  /\ canRequest(breaker, now)
  /\ ~cacheFirstHit(force, url.s)
  /\ nreq' = nreq + 1
  /\ inflight' = inflight \cup
       {[id |-> nreq + 1, req |-> Request(url, force, ArrayField(FALSE, <<>>))]}
  /\ UNCHANGED <<now, cache, manifest, jobs, results, breaker, resp, streams, locks>>

\* The rest of that start request, once the provider has answered out.
EndStart(q, out) ==
  /\ q \in inflight
  /\ providerAnswered(q.id, q.req, out)
  /\ inflight' = inflight \ {q}
  /\ UNCHANGED <<now, cache, manifest, results, nreq, streams, locks>>

(* ------------------------------ crawl seed ----------------------------- *)
PageUrlInputs ==
  {ArrayField(FALSE, <<>>)}
    \cup {ArrayField(TRUE, q) : q \in SeqsUpTo(PageUrls, MaxSeedLen)}

\* cachedUrlsOf without the filter.
cachedUrlsOfUnfiltered(c, pageUrls) == pageUrls

\* pageUrls.filter(u => cached.get(u) !== null)
cachedUrlsOf(c, pageUrls) == SelectSeq(pageUrls, LAMBDA u : mget(c, pageUrls)[u] # NullContent)
\* pageUrls.filter(u => cached.get(u) === null)
missingUrlsOf(c, pageUrls) == SelectSeq(pageUrls, LAMBDA u : mget(c, pageUrls)[u] = NullContent)

\* seedRejection without the check that some candidate is cached.
seedRejectionNo404(c, url, pageUrls) ==
  IF url.kind # "string" \/ url.s = "" THEN 400
  ELSE IF ~pageUrls.isArray \/ Len(pageUrls.items) = 0 THEN 400
  ELSE IF ~isValidDocumentationUrl(url.s) THEN 400
  ELSE 0

\* The status of the rejection a seed request meets, 0 when it meets none.
seedRejection(c, url, pageUrls) ==
  IF url.kind # "string" \/ url.s = "" THEN 400
  ELSE IF ~pageUrls.isArray \/ Len(pageUrls.items) = 0 THEN 400
  ELSE IF ~isValidDocumentationUrl(url.s) THEN 400
  ELSE IF Len(cachedUrlsOf(c, pageUrls.items)) = 0 THEN 404
  ELSE 0

\* POST /api/crawl/seed with body {url, pageUrls}.
Seed(url, pageUrls) ==
  /\ nreq < MaxRequests
  /\ nreq' = nreq + 1
  /\ LET req == Request(url, FALSE, pageUrls)
         rejection == seedRejection(cache, url, pageUrls)
         cachedUrls == cachedUrlsOf(cache, pageUrls.items)
         missingUrls == missingUrlsOf(cache, pageUrls.items)
     IN
     IF rejection = 400 THEN
       /\ resp' = Response("seed", req, 400, 0, FALSE, 0, 0, 0)
       /\ UNCHANGED manifest
     ELSE IF rejection = 404 THEN
       /\ resp' = Response("seed", req, 404, 0, FALSE, 0, Len(missingUrls), 0)
       /\ UNCHANGED manifest
     ELSE
       /\ manifest' = setCrawlUrlMap(manifest, url.s, cachedUrls)
       /\ resp' = Response("seed", req, 200, 0, FALSE, Len(cachedUrls), Len(missingUrls), 0)
  /\ UNCHANGED <<now, cache, jobs, results, breaker, streams, inflight, locks>>

(* ------------------------------ status stream -------------------------- *)
\* A CrawlStatusMessage; fields a message does not carry hold defaults.
Event(type, status, url, content, isCached, progress, total, credits, error) ==
  [type |-> type, status |-> status, url |-> url, content |-> content, cached |-> isCached,
   progress |-> progress, total |-> total, creditsUsed |-> credits, error |-> error]
StatusEvent(st) == Event("status", st, "", EmptyContent, FALSE, 0, 0, 0, "")
ProgressEvent(p, t, c) == Event("progress", "", "", EmptyContent, FALSE, p, t, c, "")
UrlCompleteEvent(u, c, isCached) == Event("url_complete", "", u, c, isCached, 0, 0, 0, "")
CompleteEvent(t, c) == Event("complete", "", "", EmptyContent, FALSE, 0, t, c, "")
ErrorEvent(e) == Event("error", "", "", EmptyContent, FALSE, 0, 0, 0, e)

\* A number field of a provider response that is absent (undefined).
Absent == 0 - 1
\* JavaScript truthiness of a number field, and `x || 0`.
truthy(x) == x > 0
orZero(x) == IF truthy(x) THEN x ELSE 0

\* One page of data.data: metadata.sourceURL ("" when absent) and markdown.
Page(u, c) == [sourceURL |-> u, markdown |-> c]

\* The body of a provider status response, or an error.
\* kind: "ok" (response.ok), "http" (a non-OK status code), "throw" (fetch or
\* response.json() threw).
PollResponse(kind, code, status, completed, total, next, hasData, data) ==
  [kind |-> kind, code |-> code, status |-> status, completed |-> completed,
   total |-> total, creditsUsed |-> completed, next |-> next, hasData |-> hasData,
   data |-> data]
NoData == PollResponse("none", 0, "", Absent, Absent, "", FALSE, <<>>)

\* The locals of ReadableStream.start, the stream's position and its output.
\*   pc: idle | loop (about to poll) | pages | eval | finishComplete |
\*       finishFailed | sleep | closed
\*   mode: none | notFound | fast (cache fast path) | poll
\*   nearRun: every poll since the last progress, the progress poll included,
\*       was answered successfully with completed/total >= 0.96 and no next
\*       cursor (history, written by no statement of the code)
\*   otherErrors: the non-ok answers outside 502/503/504 received in a row
\*       (history, written by no statement of the code)
\*   iter: the events of the current poll iteration; last: the last event;
\*   emits: url_complete events per page url; completes: complete events.
IdleStream ==
  [pc |-> "idle", mode |-> "none", httpStatus |-> 0, job |-> 0, url |-> "", next |-> "",
   isComplete |-> FALSE, lastPageNumber |-> 0, startTime |-> 0,
   consecutiveErrors |-> 0, lastProgressUpdate |-> 0, lastCompletedCount |-> 0,
   sentUrls |-> <<>>, data |-> NoData, polls |-> 0, statusUrl |-> "",
   iter |-> <<>>, last |-> ErrorEvent("none"), emits |-> [u \in PageUrls |-> 0],
   completes |-> 0, closedAt |-> 0, nearRun |-> FALSE, otherErrors |-> 0]

baseStatusUrl == "crawl"

\* controller.enqueue of a sequence of events.
enqueue(st, evs) ==
  IF Len(evs) = 0 THEN st
  ELSE [st EXCEPT !.iter = st.iter \o evs, !.last = evs[Len(evs)]]

\* controller.close()
close(st, t) == [st EXCEPT !.pc = "closed", !.closedAt = t, !.data = NoData]

\* fastPathEvents that emits nothing.
fastPathEventsNone(c, urls) == <<>>

\* The fast path's loop over crawledUrls: one url_complete per url that the
\* cache still holds (if (content)).
RECURSIVE fastPathEvents(_, _)
fastPathEvents(c, urls) ==
  IF Len(urls) = 0 THEN <<>>
  ELSE LET content == cacheGet(c, urls[1])
       IN (IF content # NullContent /\ content.len > 0
           THEN <<UrlCompleteEvent(urls[1], content, TRUE)>> ELSE <<>>)
          \o fastPathEvents(c, Tail(urls))

countUrlComplete(evs, u) ==
  Cardinality({i \in 1..Len(evs) : evs[i].type = "url_complete" /\ evs[i].url = u})

\* GET /api/crawl/{jobId}/status: the handler up to the first poll.
OpenStream(s, j) ==
  /\ streams[s].pc = "idle"
  /\ LET jobMetadata == getCrawlJob(jobs, j)
         st0 == [IdleStream EXCEPT !.job = j]
     IN
     IF jobMetadata.status = "absent" THEN
       streams' = [streams EXCEPT ![s] =
         close([enqueue(st0, <<ErrorEvent("Job not found")>>)
                  EXCEPT !.httpStatus = 404, !.mode = "notFound"], now)]
     ELSE IF jobMetadata.status = "cache_hit" /\ jobMetadata.hasCrawledUrls THEN
       LET evs == fastPathEvents(cache, jobMetadata.crawledUrls)
           st1 == enqueue(st0, evs \o <<CompleteEvent(Len(jobMetadata.crawledUrls), 0)>>)
       IN streams' = [streams EXCEPT ![s] =
            close([st1 EXCEPT !.httpStatus = 200, !.mode = "fast", !.url = jobMetadata.url,
                              !.emits = [u \in PageUrls |-> countUrlComplete(evs, u)],
                              !.completes = 1], now)]
     ELSE
       streams' = [streams EXCEPT ![s] =
         [st0 EXCEPT !.pc = "loop", !.mode = "poll", !.httpStatus = 200, !.url = jobMetadata.url,
                     !.next = jobMetadata.next, !.startTime = now,
                     !.lastProgressUpdate = now]]
  /\ UNCHANGED <<now, cache, manifest, jobs, results, breaker, nreq, resp, inflight, locks>>

\* completionRatio >= pct / 100, where completionRatio is completed / total
\* when both are truthy and 0 otherwise.
ratioAtLeast(data, pct) ==
  truthy(data.completed) /\ truthy(data.total) /\ 100 * data.completed >= pct * data.total

isGateway(code) == code \in {502, 503, 504}

\* The poll's updatedMetadata.
updatedMetadata(data, lastPageNumber) ==
  [status |-> data.status, totalPages |-> orZero(data.total),
   completedPages |-> orZero(data.completed), creditsUsed |-> orZero(data.creditsUsed),
   next |-> data.next,
   lastPageNumber |-> IF data.hasData THEN lastPageNumber + 1 ELSE lastPageNumber]

\* pollOkEvents with the progress event first.
pollOkEventsSwapped(r) ==
  <<ProgressEvent(orZero(r.completed), orZero(r.total), r.creditsUsed), StatusEvent(r.status)>>

\* The status and progress events of a successful poll.
pollOkEvents(r) ==
  <<StatusEvent(r.status), ProgressEvent(orZero(r.completed), orZero(r.total), r.creditsUsed)>>

\* Poll that does not record progress.
PollNoProgressUpdate(s, d, r) ==
  LET st == streams[s]
      t == now + d
      st0 == [st EXCEPT !.iter = <<>>, !.polls = Min(st.polls + 1, MaxPolls),
                        !.statusUrl = IF st.next # "" THEN st.next ELSE baseStatusUrl]
  IN
  /\ st.pc = "loop"
  /\ now' = t
  /\ IF r.kind = "ok" THEN
       LET progressed == truthy(r.completed) /\ r.completed > st.lastCompletedCount
           st1 == [st0 EXCEPT !.consecutiveErrors = 0,
                     !.lastProgressUpdate = st.lastProgressUpdate,
                     !.lastCompletedCount = st.lastCompletedCount,
                     !.data = r,
                     !.nearRun = ratioAtLeast(r, 96) /\ r.next = "" /\ (progressed \/ st.nearRun),
                     !.otherErrors = 0,
                     !.pc = IF r.hasData THEN "pages" ELSE "eval"]
       IN /\ jobs' = updateCrawlJobStatus(jobs, st.job, updatedMetadata(r, st.lastPageNumber))
          /\ streams' = [streams EXCEPT ![s] =
               enqueue(st1, pollOkEvents(r))]
     ELSE
       LET counted == r.kind = "throw" \/ isGateway(r.code)
           n == IF counted THEN st.consecutiveErrors + 1 ELSE st.consecutiveErrors
           st1 == [st0 EXCEPT !.consecutiveErrors = n, !.nearRun = FALSE,
                     !.otherErrors = IF counted THEN 0 ELSE st.otherErrors + 1]
       IN /\ UNCHANGED jobs
          /\ streams' = [streams EXCEPT ![s] =
               IF counted /\ n >= maxConsecutiveErrors THEN
                 close([enqueue(st1, <<ErrorEvent("Too many consecutive errors")>>)
                          EXCEPT !.isComplete = TRUE], t)
               ELSE IF counted THEN [st1 EXCEPT !.pc = "sleep"]
               ELSE [enqueue(st1, <<ErrorEvent("Failed to get crawl status")>>)
                       EXCEPT !.pc = "sleep"]]
  /\ UNCHANGED <<cache, manifest, results, breaker, nreq, resp, inflight, locks>>

\* One poll: the status request, which takes d ms, and the handling of its
\* answer r up to the next await on shared state.
Poll(s, d, r) ==
  LET st == streams[s]
      t == now + d
      st0 == [st EXCEPT !.iter = <<>>, !.polls = Min(st.polls + 1, MaxPolls),
                        !.statusUrl = IF st.next # "" THEN st.next ELSE baseStatusUrl]
  IN
  /\ st.pc = "loop"
  /\ now' = t
  /\ IF r.kind = "ok" THEN
       LET progressed == truthy(r.completed) /\ r.completed > st.lastCompletedCount
           st1 == [st0 EXCEPT !.consecutiveErrors = 0,
                     !.lastProgressUpdate = IF progressed THEN t ELSE st.lastProgressUpdate,
                     !.lastCompletedCount = IF progressed THEN r.completed ELSE st.lastCompletedCount,
                     !.data = r,
                     !.nearRun = ratioAtLeast(r, 96) /\ r.next = "" /\ (progressed \/ st.nearRun),
                     !.otherErrors = 0,
                     !.pc = IF r.hasData THEN "pages" ELSE "eval"]
       IN /\ jobs' = updateCrawlJobStatus(jobs, st.job, updatedMetadata(r, st.lastPageNumber))
          /\ streams' = [streams EXCEPT ![s] =
               enqueue(st1, pollOkEvents(r))]
     ELSE
       LET counted == r.kind = "throw" \/ isGateway(r.code)
           n == IF counted THEN st.consecutiveErrors + 1 ELSE st.consecutiveErrors
           st1 == [st0 EXCEPT !.consecutiveErrors = n, !.nearRun = FALSE,
                     !.otherErrors = IF counted THEN 0 ELSE st.otherErrors + 1]
       IN /\ UNCHANGED jobs
          /\ streams' = [streams EXCEPT ![s] =
               IF counted /\ n >= maxConsecutiveErrors THEN
                 close([enqueue(st1, <<ErrorEvent("Too many consecutive errors")>>)
                          EXCEPT !.isComplete = TRUE], t)
               ELSE IF counted THEN [st1 EXCEPT !.pc = "sleep"]
               ELSE [enqueue(st1, <<ErrorEvent("Failed to get crawl status")>>)
                       EXCEPT !.pc = "sleep"]]
  /\ UNCHANGED <<cache, manifest, results, breaker, nreq, resp, inflight, locks>>

\* cacheService.setCrawlResults(jobId, pageNumber, data)
setCrawlResults(rs, j, n, data) ==
  {x \in rs : ~(x.job = j /\ x.page = n)} \cup {[job |-> j, page |-> n, data |-> data]}

inSeq(q, x) == \E i \in 1..Len(q) : q[i] = x

\* processPages that stores content of any length.
RECURSIVE processPagesStoreAll(_, _)
processPagesStoreAll(acc, pages) ==
  IF Len(pages) = 0 THEN acc
  ELSE
    LET page == pages[1]
        url == page.sourceURL
        content == page.markdown
        cachedContent == cacheGet(acc.cache, url)
    IN
    IF url = "" \/ inSeq(acc.sentUrls, url) THEN processPagesStoreAll(acc, Tail(pages))
    ELSE IF cachedContent # NullContent /\ cachedContent.len > 0 THEN
      processPagesStoreAll(
        [acc EXCEPT !.sentUrls = Append(acc.sentUrls, url),
                    !.events = Append(acc.events, UrlCompleteEvent(url, cachedContent, TRUE))],
        Tail(pages))
    ELSE
      processPagesStoreAll(
        [sentUrls |-> Append(acc.sentUrls, url),
         cache |-> cacheSet(acc.cache, url, content),
         events |-> Append(acc.events, UrlCompleteEvent(url, content, FALSE))],
        Tail(pages))

\* The loop over data.data: acc = [sentUrls, cache, events].
RECURSIVE processPages(_, _)
processPages(acc, pages) ==
  IF Len(pages) = 0 THEN acc
  ELSE
    LET page == pages[1]
        url == page.sourceURL
        content == page.markdown
        cachedContent == cacheGet(acc.cache, url)
    IN
    IF url = "" \/ inSeq(acc.sentUrls, url) THEN processPages(acc, Tail(pages))
    ELSE IF cachedContent # NullContent /\ cachedContent.len > 0 THEN
      processPages([acc EXCEPT !.sentUrls = Append(acc.sentUrls, url),
                      !.events = Append(acc.events, UrlCompleteEvent(url, cachedContent, TRUE))],
                   Tail(pages))
    ELSE
      processPages([sentUrls |-> Append(acc.sentUrls, url),
                    cache |-> IF content.len >= MIN_CONTENT_LENGTH
                              THEN cacheSet(acc.cache, url, content) ELSE acc.cache,
                    events |-> Append(acc.events, UrlCompleteEvent(url, content, FALSE))],
                   Tail(pages))

\* if (data.data && Array.isArray(data.data)) { ... lastPageNumber++ }
Pages(s) ==
  LET st == streams[s]
      acc == processPages([sentUrls |-> st.sentUrls, cache |-> cache, events |-> <<>>],
                          st.data.data)
  IN
  /\ st.pc = "pages"
  /\ results' = setCrawlResults(results, st.job, st.lastPageNumber, st.data.data)
  /\ cache' = acc.cache
  /\ streams' = [streams EXCEPT ![s] =
       [enqueue(st, acc.events) EXCEPT
          !.sentUrls = acc.sentUrls,
          !.emits = [u \in PageUrls |-> st.emits[u] + countUrlComplete(acc.events, u)],
          !.lastPageNumber = st.lastPageNumber + 1,
          !.pc = "eval"]]
  /\ UNCHANGED <<now, manifest, jobs, breaker, nreq, resp, inflight, locks>>


timeSinceLastProgress(st, t) == t - st.lastProgressUpdate
\* hasStalled with the absolute stall window.
hasStalledAbsolute(st, t) == t - st.lastProgressUpdate > absoluteMaxStallTime
hasStalled(st, t) == timeSinceLastProgress(st, t) > maxStallTime
hasAbsolutelyStalled(st, t) == timeSinceLastProgress(st, t) > absoluteMaxStallTime

\* progressRate < minProgressRate, with progressRate =
\* (completed - lastCompletedCount) / timeSinceLastProgress when completed is
\* truthy and time has passed, and 0 otherwise.
progressRateBelowMin(st, t) ==
  IF truthy(st.data.completed) /\ timeSinceLastProgress(st, t) > 0
  THEN (st.data.completed - st.lastCompletedCount) * minProgressRateDenominator
         < timeSinceLastProgress(st, t)
  ELSE TRUE
\* isMakingSlowProgress whatever the number of completed pages.
isMakingSlowProgressAnyCount(st, t) == progressRateBelowMin(st, t)

isMakingSlowProgress(st, t) == progressRateBelowMin(st, t) /\ st.data.completed > 10

hasExceededMaxTime(st, t) == t - st.startTime > maxRunTime

\* crawlIsComplete where completed = total counts only for a truthy total.
crawlIsCompleteNonEmpty(st, t) ==
  \/ st.data.status = "completed"
  \/ (/\ st.data.status = "scraping" /\ st.data.next = ""
      /\ st.data.completed = st.data.total /\ truthy(st.data.total))
  \/ (hasStalled(st, t) /\ ratioAtLeast(st.data, 95) /\ st.data.next = "")
  \/ (hasStalled(st, t) /\ ratioAtLeast(st.data, 80) /\ isMakingSlowProgress(st, t))
  \/ (hasAbsolutelyStalled(st, t) /\ ratioAtLeast(st.data, 50))
  \/ hasExceededMaxTime(st, t)

\* The condition of the completion branch.
crawlIsComplete(st, t) ==
  \/ st.data.status = "completed"
  \/ (st.data.status = "scraping" /\ st.data.next = "" /\ st.data.completed = st.data.total)
  \/ (hasStalled(st, t) /\ ratioAtLeast(st.data, 95) /\ st.data.next = "")
  \/ (hasStalled(st, t) /\ ratioAtLeast(st.data, 80) /\ isMakingSlowProgress(st, t))
  \/ (hasAbsolutelyStalled(st, t) /\ ratioAtLeast(st.data, 50))
  \/ hasExceededMaxTime(st, t)

\* Eval that takes the answer's next cursor also when it is absent.
EvalResetCursor(s) ==
  LET st == streams[s] IN
  /\ st.pc = "eval"
  /\ IF crawlIsComplete(st, now) THEN
       /\ jobs' = updateCrawlJobStatus(jobs, st.job, [status |-> "completed"])
       /\ streams' = [streams EXCEPT ![s] =
            [st EXCEPT !.isComplete = TRUE, !.pc = "finishComplete"]]
     ELSE IF st.data.status = "failed" THEN
       /\ jobs' = updateCrawlJobStatus(jobs, st.job, [status |-> "failed"])
       /\ streams' = [streams EXCEPT ![s] =
            [st EXCEPT !.isComplete = TRUE, !.pc = "finishFailed"]]
     ELSE
       /\ UNCHANGED jobs
       /\ streams' = [streams EXCEPT ![s] =
            [st EXCEPT !.next = st.data.next,
                       !.data = NoData, !.pc = "sleep"]]
  /\ UNCHANGED <<now, cache, manifest, results, breaker, nreq, resp, inflight, locks>>

\* The completion check of a successful poll, up to the job-store write of the
\* branch taken.
Eval(s) ==
  LET st == streams[s] IN
  /\ st.pc = "eval"
  /\ IF crawlIsComplete(st, now) THEN
       /\ jobs' = updateCrawlJobStatus(jobs, st.job, [status |-> "completed"])
       /\ streams' = [streams EXCEPT ![s] =
            [st EXCEPT !.isComplete = TRUE, !.pc = "finishComplete"]]
     ELSE IF st.data.status = "failed" THEN
       /\ jobs' = updateCrawlJobStatus(jobs, st.job, [status |-> "failed"])
       /\ streams' = [streams EXCEPT ![s] =
            [st EXCEPT !.isComplete = TRUE, !.pc = "finishFailed"]]
     ELSE
       /\ UNCHANGED jobs
       /\ streams' = [streams EXCEPT ![s] =
            [st EXCEPT !.next = IF st.data.next # "" THEN st.data.next ELSE st.next,
                       !.data = NoData, !.pc = "sleep"]]
  /\ UNCHANGED <<now, cache, manifest, results, breaker, nreq, resp, inflight, locks>>

\* FinishComplete after which the stream goes on polling.
FinishCompleteKeepPolling(s) ==
  LET st == streams[s] IN
  /\ st.pc = "finishComplete"
  /\ manifest' = IF Len(st.sentUrls) > 0
                 THEN setCrawlUrlMap(manifest, st.url, st.sentUrls) ELSE manifest
  /\ streams' = [streams EXCEPT ![s] =
       [enqueue(st, <<CompleteEvent(orZero(st.data.total), orZero(st.data.creditsUsed))>>)
          EXCEPT !.completes = st.completes + 1, !.pc = "sleep"]]
  /\ UNCHANGED <<now, cache, jobs, results, breaker, nreq, resp, inflight, locks>>

\* FinishComplete that writes the manifest also for an empty seen-set.
FinishCompleteAlways(s) ==
  LET st == streams[s] IN
  /\ st.pc = "finishComplete"
  /\ manifest' = setCrawlUrlMap(manifest, st.url, st.sentUrls)
  /\ streams' = [streams EXCEPT ![s] =
       close([enqueue(st, <<CompleteEvent(orZero(st.data.total), orZero(st.data.creditsUsed))>>)
                EXCEPT !.completes = st.completes + 1], now)]
  /\ UNCHANGED <<now, cache, jobs, results, breaker, nreq, resp, inflight, locks>>

\* FinishComplete without the manifest write.
FinishCompleteNoManifest(s) ==
  LET st == streams[s] IN
  /\ st.pc = "finishComplete"
  /\ streams' = [streams EXCEPT ![s] =
       close([enqueue(st, <<CompleteEvent(orZero(st.data.total), orZero(st.data.creditsUsed))>>)
                EXCEPT !.completes = st.completes + 1], now)]
  /\ UNCHANGED <<now, cache, manifest, jobs, results, breaker, nreq, resp, inflight, locks>>

\* The rest of the completion branch: the manifest write, the complete event,
\* and the close that follows the loop.
FinishComplete(s) ==
  LET st == streams[s] IN
  /\ st.pc = "finishComplete"
  /\ manifest' = IF Len(st.sentUrls) > 0
                 THEN setCrawlUrlMap(manifest, st.url, st.sentUrls) ELSE manifest
  /\ streams' = [streams EXCEPT ![s] =
       close([enqueue(st, <<CompleteEvent(orZero(st.data.total), orZero(st.data.creditsUsed))>>)
                EXCEPT !.completes = st.completes + 1], now)]
  /\ UNCHANGED <<now, cache, jobs, results, breaker, nreq, resp, inflight, locks>>

\* The rest of the failed branch: the error event and the close.
FinishFailed(s) ==
  LET st == streams[s] IN
  /\ st.pc = "finishFailed"
  /\ streams' = [streams EXCEPT ![s] =
       close(enqueue(st, <<ErrorEvent("Crawl job failed")>>), now)]
  /\ UNCHANGED <<now, cache, manifest, jobs, results, breaker, nreq, resp, inflight, locks>>

RECURSIVE pow2(_)
pow2(n) == IF n = 0 THEN 1 ELSE 2 * pow2(n - 1)

\* delay without the wait when no error is pending.
delayNoWait(consecutiveErrors) ==
  IF consecutiveErrors > 0
  THEN Min(pollInterval * pow2(consecutiveErrors - 1), maxBackoffDelay)
  ELSE 0

\* delay with a backoff that grows linearly.
delayLinear(consecutiveErrors) ==
  IF consecutiveErrors > 0
  THEN Min(pollInterval * consecutiveErrors, maxBackoffDelay)
  ELSE pollInterval

\* The delay before the next poll.
delay(consecutiveErrors) ==
  IF consecutiveErrors > 0
  THEN Min(pollInterval * pow2(consecutiveErrors - 1), maxBackoffDelay)
  ELSE pollInterval

\* The sleep between polls, then the loop condition; when the condition fails
\* the timeout error is sent, after the loop and so in no poll iteration, and
\* the stream closed.
Sleep(s) ==
  LET st == streams[s]
      t == now + delay(st.consecutiveErrors)
  IN
  /\ st.pc = "sleep"
  /\ now' = t
  /\ streams' = [streams EXCEPT ![s] =
       IF t - st.startTime < maxPollingTime THEN [st EXCEPT !.pc = "loop"]
       ELSE close(enqueue([st EXCEPT !.iter = <<>>],
                          <<ErrorEvent("Crawl job timed out after 8 minutes")>>), t)]
  /\ UNCHANGED <<cache, manifest, jobs, results, breaker, nreq, resp, inflight, locks>>

\* A cache entry's TTL runs out.
Expire(u) ==
  /\ cache[u] # NullContent
  /\ cache' = [cache EXCEPT ![u] = NullContent]
  /\ UNCHANGED <<now, manifest, jobs, results, breaker, nreq, resp, streams, inflight, locks>>

\* Time passes between requests.
Advance ==
  /\ now < MaxBreakerTime
  /\ now' = now + breakerTimeout \div 2
  /\ UNCHANGED <<cache, manifest, jobs, results, breaker, nreq, resp, streams, inflight, locks>>

(* --------------------------- distributed lock -------------------------- *)
\* The resource keys locked and the ttl arguments of acquire.
ResourceKeys == {"crawl:a", "crawl:b"}
Ttls == {30000, 60000}

\* A Lock {resourceKey, holderId, expiresAt}; held is FALSE for no lock.
Lock(k, h, e) == [held |-> TRUE, resourceKey |-> k, holderId |-> h, expiresAt |-> e]
NoLock == [held |-> FALSE, resourceKey |-> "", holderId |-> 0, expiresAt |-> 0]
\* A token handed out by acquire: the Lock as its holder sees it, and whether
\* it was handed out while the durable tier was unavailable.
Grant(k, h, e, degraded) ==
  [resourceKey |-> k, holderId |-> h, expiresAt |-> e, degraded |-> degraded]
\* The result of the last lock operation: holderId is the token returned by
\* acquire (0 for null) or presented to release; ok is release's result.
LockResult(op, k, h, ok) == [op |-> op, resourceKey |-> k, holderId |-> h, ok |-> ok]

\* store: the lock-namespaced keys of the durable tier; up: the durable tier
\* is available; issued: tokens generated so far; grants: the tokens handed
\* out and not released.
NoLocks ==
  [store |-> [k \in ResourceKeys |-> NoLock], up |-> TRUE, issued |-> 0, grants |-> {},
   last |-> LockResult("none", "", 0, FALSE)]

\* The key is present in the durable tier: written and not passively expired.
stored(l, k, t) == l.store[k].held /\ t < l.store[k].expiresAt
\* isLocked(resourceKey)
isLocked(l, k, t) == stored(l, k, t)

\* acquire that writes the key whether or not it is already held.
acquireOverwrite(l, k, ttl, t) ==
  LET token == l.issued + 1 IN
  [l EXCEPT !.issued = token,
            !.store[k] = Lock(k, token, t + ttl),
            !.grants = @ \cup {Grant(k, token, t + ttl, FALSE)},
            !.last = LockResult("acquire", k, token, TRUE)]

\* acquire(resourceKey, ttl): an atomic create-if-absent-with-expiry write of
\* a fresh token; null if the key is held; a fresh token without a write if
\* the durable tier is unavailable.
acquire(l, k, ttl, t) ==
  LET token == l.issued + 1 IN
  IF ~l.up THEN
    [l EXCEPT !.issued = token,
              !.grants = @ \cup {Grant(k, token, t + ttl, TRUE)},
              !.last = LockResult("acquire", k, token, TRUE)]
  ELSE IF stored(l, k, t) THEN
    [l EXCEPT !.issued = token, !.last = LockResult("acquire", k, 0, FALSE)]
  ELSE
    [l EXCEPT !.issued = token,
              !.store[k] = Lock(k, token, t + ttl),
              !.grants = @ \cup {Grant(k, token, t + ttl, FALSE)},
              !.last = LockResult("acquire", k, token, TRUE)]

\* release that deletes the key whatever token is presented.
releaseAnyToken(l, k, h, t) ==
  IF stored(l, k, t) THEN
    [l EXCEPT !.store[k] = NoLock,
              !.grants = {g \in @ : ~(g.resourceKey = k /\ ~g.degraded)},
              !.last = LockResult("release", k, h, TRUE)]
  ELSE [l EXCEPT !.last = LockResult("release", k, h, FALSE)]

\* release(resourceKey, holderId): compare-and-delete.
release(l, k, h, t) ==
  IF stored(l, k, t) /\ l.store[k].holderId = h THEN
    [l EXCEPT !.store[k] = NoLock,
              !.grants = {g \in @ : ~(g.resourceKey = k /\ g.holderId = h)},
              !.last = LockResult("release", k, h, TRUE)]
  ELSE [l EXCEPT !.last = LockResult("release", k, h, FALSE)]

Acquire(k, ttl) ==
  /\ locks.issued < MaxHolders
  /\ locks' = acquire(locks, k, ttl, now)
  /\ UNCHANGED <<now, cache, manifest, jobs, results, breaker, nreq, resp, streams, inflight>>

\* A release while the durable tier is available.
Release(k, h) ==
  /\ locks.up
  /\ h \in 1..locks.issued
  /\ locks' = release(locks, k, h, now)
  /\ UNCHANGED <<now, cache, manifest, jobs, results, breaker, nreq, resp, streams, inflight>>

\* The durable tier becomes unavailable or available again; its keys are kept.
SetDurable(b) ==
  /\ locks.up # b
  /\ locks' = [locks EXCEPT !.up = b]
  /\ UNCHANGED <<now, cache, manifest, jobs, results, breaker, nreq, resp, streams, inflight>>

(* --------------------------- provider answers -------------------------- *)
p1 == "https://docs.a.dev/p1"
p2 == "https://docs.a.dev/p2"
DataBatches ==
  {<<Page(p1, LongA)>>,
   <<Page(p1, ShortContent), Page(p2, LongB)>>,
   <<Page(p1, LongB), Page("", LongA), Page(p1, LongA)>>}

OkResponses ==
  {PollResponse("ok", 200, st, ct[1], ct[2], "", FALSE, <<>>) :
     st \in {"scraping", "failed"}, ct \in {<<Absent, Absent>>, <<1, 2>>}}
  \cup
  {PollResponse("ok", 200, st, 2, 2, "", TRUE, b) :
     st \in {"scraping", "completed"}, b \in DataBatches}
  \cup
  {PollResponse("ok", 200, "scraping", 1, 2, "cursor", TRUE, b) : b \in DataBatches \cup {<<>>}}

ErrorResponses ==
  {PollResponse("http", c, "", Absent, Absent, "", FALSE, <<>>) : c \in {502, 404}}
  \cup {PollResponse("throw", 0, "", Absent, Absent, "", FALSE, <<>>)}

\* How long the status request takes: at once, or up to its 30 s timeout.
FetchDurations == {0, statusFetchTimeout}

RECURSIVE totalPolls(_)
totalPolls(n) == IF n = 0 THEN 0 ELSE streams[n].polls + totalPolls(n - 1)
\* More polls fit the run's bound.
mayPoll == totalPolls(MaxStreams) < MaxPolls

(* ---------------------------- specification ---------------------------- *)
Init ==
  /\ now = 0
  /\ cache \in [PageUrls -> {NullContent, LongA}]
  /\ manifest = [u \in StartUrlStrings |-> NoManifest]
  /\ jobs = [j \in JobIds |-> NoJob]
  /\ results = {}
  /\ breaker \in {ClosedBreaker, OpenBreaker}
  /\ nreq = 0
  /\ resp = NoResponse
  /\ streams = [s \in Streams |-> IdleStream]
  /\ inflight = {}
  /\ locks = NoLocks

Next ==
  \/ \E url \in UrlInputs, force \in BOOLEAN, out \in StartOutcomes : Start(url, force, out)
  \/ \E url \in UrlInputs, pageUrls \in PageUrlInputs : Seed(url, pageUrls)
  \/ \E s \in Streams, j \in JobIds : OpenStream(s, j)
  \/ \E s \in Streams, d \in FetchDurations, r \in OkResponses \cup ErrorResponses :
       mayPoll /\ Poll(s, d, r)
  \/ \E s \in Streams : Pages(s)
  \/ \E s \in Streams : Eval(s)
  \/ \E s \in Streams : FinishComplete(s)
  \/ \E s \in Streams : FinishFailed(s)
  \/ \E s \in Streams : Sleep(s)
  \/ \E u \in PageUrls : Expire(u)
  \/ \E url \in UrlInputs, force \in BOOLEAN : BeginStart(url, force)
  \/ \E q \in inflight, out \in StartOutcomes : EndStart(q, out)
  \/ Advance
  \/ \E k \in ResourceKeys, ttl \in Ttls : Acquire(k, ttl)
  \/ \E k \in ResourceKeys, h \in 1..MaxHolders : Release(k, h)
  \/ \E b \in BOOLEAN : SetDurable(b)

\* The whole system.
Spec == Init /\ [][Next]_vars

\* The request handlers and the cache fast path: start, seed, the opening of a
\* stream, cache expiry.
NextStart ==
  \/ \E url \in UrlInputs, force \in BOOLEAN, out \in StartOutcomes : Start(url, force, out)
  \/ \E url \in UrlInputs, pageUrls \in PageUrlInputs : Seed(url, pageUrls)
  \/ \E s \in Streams, j \in JobIds : OpenStream(s, j)
  \/ \E u \in PageUrls : Expire(u)

SpecStart == Init /\ [][NextStart]_vars

\* The state after one admitted start request created remote job 1.
InitPoll ==
  /\ now = 0
  /\ cache \in [PageUrls -> {NullContent, LongA}]
  /\ manifest = [u \in StartUrlStrings |-> NoManifest]
  /\ jobs = [j \in JobIds |-> IF j = 1 THEN crawlingJob(1, DocUrl, 0) ELSE NoJob]
  /\ results = {}
  /\ breaker = ClosedBreaker
  /\ nreq = 1
  /\ resp = Response("start", Request(Field("string", DocUrl), FALSE, ArrayField(FALSE, <<>>)),
                     200, 1, FALSE, 0, 0, 1)
  /\ streams = [s \in Streams |-> IdleStream]
  /\ inflight = {}
  /\ locks = NoLocks

\* The status streams of a remote job; streams are opened in index order.
NextPoll ==
  \/ \E s \in Streams, j \in JobIds :
       (IF s = 1 THEN TRUE ELSE streams[s - 1].pc # "idle") /\ OpenStream(s, j)
  \/ \E s \in Streams, r \in OkResponses \cup ErrorResponses : mayPoll /\ Poll(s, 0, r)
  \/ \E s \in Streams : Pages(s)
  \/ \E s \in Streams : Eval(s)
  \/ \E s \in Streams : FinishComplete(s)
  \/ \E s \in Streams : FinishFailed(s)
  \/ \E s \in Streams : Sleep(s)

SpecPoll == InitPoll /\ [][NextPoll]_vars

\* A stalled remote job as one stream sees it over the whole polling time:
\* answers without page data at fixed completion levels, gateway errors, and
\* thrown requests, and status requests that answer at once or only at their
\* timeout.
TimeResponses ==
  {PollResponse("ok", 200, "scraping", c, 25, "", FALSE, <<>>) : c \in {12, 24}}
  \cup {PollResponse("ok", 200, "failed", 12, 25, "", FALSE, <<>>)}
  \cup {PollResponse("http", 502, "", Absent, Absent, "", FALSE, <<>>)}
  \cup {PollResponse("throw", 0, "", Absent, Absent, "", FALSE, <<>>)}

TimeDurations == {0, statusFetchTimeout}

\* The remote job never reports fewer completed pages than before.
monotone(r) == r.kind = "ok" => r.completed >= streams[1].lastCompletedCount

NextTime ==
  \/ OpenStream(1, 1)
  \/ \E d \in TimeDurations, r \in TimeResponses : monotone(r) /\ Poll(1, d, r)
  \/ Eval(1)
  \/ FinishComplete(1)
  \/ FinishFailed(1)
  \/ Sleep(1)

InitTime == InitPoll /\ cache = [u \in PageUrls |-> NullContent]

SpecTime == InitTime /\ [][NextTime]_vars

\* The event loop runs the stream's task: every status request answers or
\* times out, every timer fires, every store operation returns.
FairSpecTime == SpecTime /\ WF_vars(NextTime)

\* The circuit breaker over a run of start requests, with the status stream of
\* the first job created: the provider creates a job only while the run's job
\* ids last, answers status polls at once and without page data, and time
\* passes between requests.
BreakerPollResponses ==
  {PollResponse("ok", 200, "scraping", 12, 25, "", FALSE, <<>>),
   PollResponse("ok", 200, "completed", 25, 25, "", FALSE, <<>>)}

BreakerUrlInputs == {Field("string", u) : u \in StartUrlStrings}

NextBreaker ==
  \/ \E url \in BreakerUrlInputs, force \in BOOLEAN, out \in StartOutcomes :
       /\ nreq < MaxBreakerRequests
       /\ out.kind = "job" => nreq < MaxRequests
       /\ startRequest(url, force, out)
  \/ Advance
  \/ OpenStream(1, 1)
  \/ \E r \in BreakerPollResponses : now < MaxBreakerTime /\ Poll(1, 0, r)
  \/ Eval(1)
  \/ FinishComplete(1)
  \/ Sleep(1)

InitBreaker == Init /\ breaker = ClosedBreaker /\ cache = [u \in PageUrls |-> NullContent]

SpecBreaker == InitBreaker /\ [][NextBreaker]_vars

\* Start requests that overlap: each awaits the provider's answer while
\* others begin and end.
NextConcurrent ==
  \/ \E url \in BreakerUrlInputs, force \in BOOLEAN : BeginStart(url, force)
  \/ \E q \in inflight, out \in StartOutcomes : EndStart(q, out)

SpecConcurrent == InitBreaker /\ [][NextConcurrent]_vars

\* One stream whose status requests meet error statuses: answers at once,
\* among them non-ok statuses inside and outside the gateway class, for the
\* first MaxErrorTime ms of polling.
ErrorRunResponses ==
  {PollResponse("http", c, "", Absent, Absent, "", FALSE, <<>>) : c \in {404, 429, 503}}
  \cup {PollResponse("ok", 200, st, 12, 25, "", FALSE, <<>>) : st \in {"scraping", "failed"}}
  \cup {PollResponse("ok", 200, "completed", 25, 25, "", FALSE, <<>>)}

NextErrors ==
  \/ OpenStream(1, 1)
  \/ \E r \in ErrorRunResponses : now < MaxErrorTime /\ Poll(1, 0, r)
  \/ Eval(1)
  \/ FinishComplete(1)
  \/ FinishFailed(1)
  \/ Sleep(1)

SpecErrors == InitTime /\ [][NextErrors]_vars

(* ------------------- reuse of a finished polled crawl ------------------ *)
\* One polled crawl of job 1 by stream 1, then one further start request for
\* the same start url and a second stream; no cache entry expires.
NextReuse ==
  \/ OpenStream(1, 1)
  \/ \E r \in OkResponses \cup ErrorResponses : mayPoll /\ Poll(1, 0, r)
  \/ Pages(1)
  \/ Eval(1)
  \/ FinishComplete(1)
  \/ FinishFailed(1)
  \/ Sleep(1)
  \/ \E force \in BOOLEAN, out \in StartOutcomes :
       streams[1].pc # "idle" /\ Start(Field("string", DocUrl), force, out)
  \/ \E j \in JobIds : streams[1].pc # "idle" /\ OpenStream(2, j)

SpecReuse == InitPoll /\ [][NextReuse]_vars

\* The url_complete events of a stream's last iteration for content that the
\* reconciler stored: a cache miss with content of the minimum length.
storedEvents(st) ==
  {st.iter[i] : i \in {k \in 1..Len(st.iter) :
       /\ st.iter[k].type = "url_complete" /\ ~st.iter[k].cached
       /\ st.iter[k].content.len >= MIN_CONTENT_LENGTH}}

\* The distributed lock over time, with the durable tier going away and
\* coming back.
NextLock ==
  \/ \E k \in ResourceKeys, ttl \in Ttls : Acquire(k, ttl)
  \/ \E k \in ResourceKeys, h \in 1..MaxHolders : Release(k, h)
  \/ \E b \in BOOLEAN : SetDurable(b)
  \/ Advance

SpecLock == InitBreaker /\ [][NextLock]_vars

\* A remote job as one stream sees it while it stalls at different completion
\* levels, with and without a next cursor.
StallResponses ==
  {PollResponse("ok", 200, "scraping", ct[1], ct[2], "", FALSE, <<>>) :
     ct \in {<<4, 5>>, <<11, 25>>, <<20, 25>>, <<24, 25>>}}
  \cup {PollResponse("ok", 200, "scraping", 24, 25, "cursor", FALSE, <<>>)}

NextStall ==
  \/ OpenStream(1, 1)
  \/ \E d \in TimeDurations, r \in StallResponses : monotone(r) /\ Poll(1, d, r)
  \/ Eval(1)
  \/ FinishComplete(1)
  \/ Sleep(1)

SpecStall == InitTime /\ [][NextStall]_vars

\* Seed requests whose candidate list is longer than the start handler's
\* sample, then start requests, with cache entries expiring in between.
SampleSeeds ==
  {<<p1, p1, p1, p2>>, <<p1, p2, p1, p2>>, <<p2, p2, p2, p1>>, <<p1, p2>>}

NextSample ==
  \/ \E q \in SampleSeeds : Seed(Field("string", DocUrl), ArrayField(TRUE, q))
  \/ \E u \in PageUrls : Expire(u)
  \/ \E url \in UrlInputs, force \in BOOLEAN, out \in StartOutcomes : Start(url, force, out)

SpecSample == Init /\ [][NextSample]_vars

\* The streams of a job whose answers carry a next cursor, another one, or
\* none, over a few polls.
Cursors == {"cursor", "cursor2"}
CursorResponses ==
  {PollResponse("ok", 200, "scraping", 1, 2, c, FALSE, <<>>) : c \in Cursors \cup {""}}
  \cup {PollResponse("ok", 200, "completed", 2, 2, "", FALSE, <<>>)}
  \cup {PollResponse("http", 502, "", Absent, Absent, "", FALSE, <<>>)}

NextCursor ==
  \/ \E s \in Streams :
       (IF s = 1 THEN TRUE ELSE streams[s - 1].pc # "idle") /\ OpenStream(s, 1)
  \/ \E s \in Streams, r \in CursorResponses : now < MaxCursorTime /\ Poll(s, 0, r)
  \/ \E s \in Streams : Eval(s)
  \/ \E s \in Streams : FinishComplete(s)
  \/ \E s \in Streams : Sleep(s)

SpecCursor == InitTime /\ [][NextCursor]_vars

\* The streams of a job that reports no pages: completed and total are 0 or
\* absent, with and without a next cursor.
EmptyResponses ==
  {PollResponse("ok", 200, "scraping", ct[1], ct[2], c, FALSE, <<>>) :
     ct \in {<<0, 0>>, <<Absent, Absent>>, <<0, 2>>}, c \in {"", "cursor"}}
  \cup {PollResponse("ok", 200, "scraping", 2, 2, "", TRUE, <<Page(p1, LongA)>>)}
  \cup {PollResponse("http", 502, "", Absent, Absent, "", FALSE, <<>>)}

NextEmpty ==
  \/ \E s \in Streams :
       (IF s = 1 THEN TRUE ELSE streams[s - 1].pc # "idle") /\ OpenStream(s, 1)
  \/ \E s \in Streams, r \in EmptyResponses : mayPoll /\ Poll(s, 0, r)
  \/ \E s \in Streams : Pages(s)
  \/ \E s \in Streams : Eval(s)
  \/ \E s \in Streams : FinishComplete(s)
  \/ \E s \in Streams : Sleep(s)

SpecEmpty == InitTime /\ [][NextEmpty]_vars

(* ----------------------------- properties ------------------------------- *)
timeoutError == "Crawl job timed out after 8 minutes"

\* C2: every status stream that is opened eventually closes, and when it has
\* closed the last event it emitted is a complete event or an error event.
C2_StreamEndsWithCompleteOrError ==
  /\ (streams[1].pc # "idle") ~> (streams[1].pc = "closed")
  /\ [](streams[1].pc = "closed" => streams[1].last.type \in {"complete", "error"})
\* A polling stream that ran into the ceiling and closed with the timeout error.
C2_Witness ==
  /\ streams[1].pc = "closed" /\ streams[1].mode = "poll"
  /\ streams[1].last = ErrorEvent(timeoutError)

\* C3: a stream that ends with the timeout error ends exactly when the time
\* since its start reaches the ceiling of 480000 ms, not later.
C3_TimeoutExactlyAtCeiling ==
  \A s \in Streams :
    (streams[s].pc = "closed" /\ streams[s].last = ErrorEvent(timeoutError))
      => streams[s].closedAt - streams[s].startTime = maxPollingTime

\* The stream has emitted complete and the job store records completed.
completedJob(s) ==
  /\ streams[s].completes = 1
  /\ streams[s].last.type = "complete"
  /\ jobs[streams[s].job].status = "completed"

\* With successful polls at completed/total >= 0.96 and no next cursor since
\* the last progress: the stream is not left running later than `within` ms
\* after the stall window, and once closed after the window it has completed
\* the job, unless `ceiling` excuses a stream that the polling ceiling ended.
stallCompletes(s, within, ceiling) ==
  LET st == streams[s] IN
  (st.mode = "poll" /\ st.nearRun) =>
    /\ st.pc # "closed" => now - st.lastProgressUpdate <= maxStallTime + within
    /\ (st.pc = "closed" /\ st.closedAt - st.lastProgressUpdate > maxStallTime)
         => \/ completedJob(s) /\ st.closedAt - st.lastProgressUpdate <= maxStallTime + within
            \/ ceiling /\ st.last = ErrorEvent(timeoutError)

\* C4 as the specification states it: complete is emitted and the job marked completed within one
\* poll interval (2 s) after the stall window (60 s) has elapsed.
C4_StallWithinPollInterval == stallCompletes(1, pollInterval, FALSE)
\* C4: complete is emitted and the job marked completed on the first
\* successful poll evaluated after the stall window has elapsed, at most one
\* status request (30 s timeout) and one poll interval (2 s) after it, unless
\* the polling ceiling ends the stream first.
C4_StallWithinPollIteration == stallCompletes(1, pollInterval + statusFetchTimeout, TRUE)
\* A stream completed by the stall predicate at the latest moment.
C4_Witness ==
  /\ streams[1].nearRun /\ completedJob(1)
  /\ streams[1].closedAt - streams[1].lastProgressUpdate
       = maxStallTime + pollInterval + statusFetchTimeout

\* A start or seed request was handled in this step.
requestStep(op) == nreq' = nreq + 1 /\ resp'.op = op

\* C1: a start request without force, admitted by URL validation and by the
\* breaker, whose start URL has a non-empty manifest whose first min(3, n)
\* urls are all cached, calls the provider zero times and creates a job with
\* status cache_hit, creditsUsed 0, totalPages = completedPages = the size of
\* the manifest and crawledUrls equal to the manifest.
C1_CacheFirstStart ==
  [][requestStep("start") =>
       LET req == resp'.req
           u == req.url.s
       IN (/\ req.url.kind = "string" /\ u \in StartUrlStrings
           /\ isValidDocumentationUrl(u)
           /\ breakerStateAt(breaker, now) # "open"
           /\ ~req.force
           /\ manifest[u].present /\ Len(manifest[u].urls) > 0
           /\ \A i \in 1..Len(manifest[u].urls) :
                i <= 3 => cache[manifest[u].urls[i]] # NullContent)
          => /\ resp'.calls = 0
             /\ resp'.status = 200 /\ resp'.cached
             /\ resp'.jobId \in JobIds
             /\ jobs[resp'.jobId] = NoJob
             /\ jobs'[resp'.jobId].status = "cache_hit"
             /\ jobs'[resp'.jobId].creditsUsed = 0
             /\ jobs'[resp'.jobId].totalPages = Len(manifest[u].urls)
             /\ jobs'[resp'.jobId].completedPages = Len(manifest[u].urls)
             /\ jobs'[resp'.jobId].hasCrawledUrls
             /\ jobs'[resp'.jobId].crawledUrls = manifest[u].urls]_vars
\* A start request was served from a manifest of three urls.
C1_Witness ==
  /\ resp.op = "start" /\ resp.cached /\ resp.calls = 0
  /\ jobs[resp.jobId].status = "cache_hit"
  /\ Len(jobs[resp.jobId].crawledUrls) = 3

\* C5: in polling mode the events of one poll iteration are status, then
\* progress, then zero or more url_complete, then at most one of complete or
\* error; an iteration without status and progress emits at most one error.
C5_EventOrder ==
  \A s \in Streams :
    streams[s].mode = "poll" =>
      LET it == streams[s].iter IN
      \/ it = <<>>
      \/ Len(it) = 1 /\ it[1].type = "error"
      \/ /\ Len(it) >= 2
         /\ it[1].type = "status"
         /\ it[2].type = "progress"
         /\ \A i \in 3..Len(it) :
              IF i < Len(it) THEN it[i].type = "url_complete"
              ELSE it[i].type \in {"url_complete", "complete", "error"}
\* An iteration that emitted status, progress, two url_complete and complete.
C5_Witness ==
  \E s \in Streams :
    /\ streams[s].mode = "poll" /\ Len(streams[s].iter) = 5
    /\ streams[s].iter[3].type = "url_complete"
    /\ streams[s].iter[5].type = "complete"

\* C6: in one status stream at most one url_complete event is emitted for any
\* page url.
C6_UrlCompleteAtMostOnce ==
  \A s \in Streams : \A u \in PageUrls : streams[s].emits[u] <= 1

\* C7: whenever a manifest is written, every url in it is present in the
\* cache at that moment.
C7_ManifestUrlsCached ==
  [][\A u \in StartUrlStrings :
       manifest'[u] # manifest[u] =>
         \A i \in 1..Len(manifest'[u].urls) : cache'[manifest'[u].urls[i]] # NullContent]_vars

\* The candidates of q that the cache c holds, in order.
RECURSIVE keepCached(_, _)
keepCached(c, q) ==
  IF q = <<>> THEN <<>>
  ELSE (IF c[Head(q)] # NullContent THEN <<Head(q)>> ELSE <<>>) \o keepCached(c, Tail(q))

\* The seed request is well-formed: a non-empty string url that is allowed
\* and a non-empty array of page urls.
wellFormedSeed(req) ==
  /\ req.url.kind = "string" /\ req.url.s # ""
  /\ isValidDocumentationUrl(req.url.s)
  /\ req.pageUrls.isArray /\ Len(req.pageUrls.items) > 0

\* C8: a well-formed seed request of whose candidates some are cached stores
\* as the manifest of the start url exactly the cached candidates, in input
\* order, and reports the others as missing; stored + missing is the number
\* of candidates.
C8_SeedStoresCachedSubset ==
  [][requestStep("seed") =>
       LET req == resp'.req
           kept == keepCached(cache, req.pageUrls.items)
       IN (wellFormedSeed(req) /\ kept # <<>>)
          => /\ resp'.status = 200
             /\ manifest'[req.url.s] = [present |-> TRUE, urls |-> kept]
             /\ \A u \in StartUrlStrings \ {req.url.s} : manifest'[u] = manifest[u]
             /\ resp'.stored = Len(kept)
             /\ resp'.missing = Len(req.pageUrls.items) - Len(kept)
             /\ resp'.stored + resp'.missing = Len(req.pageUrls.items)]_vars
\* A seed of three candidates stored two of them and reported one missing.
C8_Witness ==
  /\ resp.op = "seed" /\ resp.status = 200
  /\ resp.stored = 2 /\ resp.missing = 1
  /\ Len(manifest[DocUrl].urls) = 2

\* C9: a seed request whose url is missing or not a string, whose page-url
\* list is missing or empty, or whose url is not allowed is answered 400, one
\* none of whose candidates is cached is answered 404, and neither changes
\* any manifest.
C9_SeedRejections ==
  [][requestStep("seed") =>
       LET req == resp'.req IN
       /\ ~wellFormedSeed(req) => resp'.status = 400 /\ manifest' = manifest
       /\ (wellFormedSeed(req) /\ keepCached(cache, req.pageUrls.items) = <<>>)
            => resp'.status = 404 /\ manifest' = manifest]_vars
\* A seed none of whose candidates is cached was rejected while a manifest
\* was stored.
C9_Witness ==
  /\ resp.op = "seed" /\ resp.status = 404
  /\ manifest[DocUrl].present

\* C10: once the job store records completed or failed for a job, no step
\* changes the stored status.
C10_TerminalStatus ==
  [][\A j \in JobIds :
       jobs[j].status \in {"completed", "failed"} => jobs'[j].status = jobs[j].status]_vars

\* C11: the status stored for every job is one of crawling, cache_hit,
\* completed, failed.
C11_StoredStatusInEnum ==
  \A j \in JobIds :
    jobs[j] # NoJob => jobs[j].status \in {"crawling", "cache_hit", "completed", "failed"}

\* C12: a result page number of a job is written to the job store at most
\* once, across all the streams of the job: a stream that writes its page
\* lastPageNumber finds no page of that number stored for the job.
C12_ResultPagesWrittenOnce ==
  [][\A s \in Streams :
       (streams[s].pc = "pages" /\ streams'[s].pc # "pages") =>
         ~\E x \in results : x.job = streams[s].job /\ x.page = streams[s].lastPageNumber]_vars

\* C13: whenever a polling stream has ended with an error event, the status
\* stored for its job is failed.
C13_ErrorEndStoresFailed ==
  \A s \in Streams :
    (streams[s].mode = "poll" /\ streams[s].pc = "closed" /\ streams[s].last.type = "error")
      => jobs[streams[s].job].status = "failed"

\* C14: once a successful poll has reported the remote status failed, the job
\* is stored as failed, the stream goes on to end with the error event of a
\* failed crawl, and no complete event is emitted.
C14_RemoteFailedEndsFailed ==
  [][LET st == streams[1] IN
     (st.pc # "closed" /\ st.data.status = "failed") =>
       /\ jobs'[st.job].status = "failed"
       /\ streams'[1].pc \in {"finishFailed", "closed"}
       /\ streams'[1].completes = 0
       /\ streams'[1].pc = "closed" => streams'[1].last = ErrorEvent("Crawl job failed")]_vars

\* C15: a gateway-class answer raises the count of consecutive errors; below
\* the threshold it emits no event and polling goes on, at the threshold it
\* emits exactly one error event, the stream ends and the job is stored as
\* failed; a successful answer resets the count to 0.
C15_GatewayErrorsCounted ==
  [][\A d \in TimeDurations, r \in TimeResponses :
       Poll(1, d, r) =>
         LET st == streams[1]
             n == st.consecutiveErrors + 1
         IN
         /\ r.kind = "ok" => streams'[1].consecutiveErrors = 0
         /\ (r.kind = "http" /\ isGateway(r.code)) =>
              /\ streams'[1].consecutiveErrors = n
              /\ n < maxConsecutiveErrors =>
                   /\ streams'[1].iter = <<>>
                   /\ streams'[1].last = st.last
                   /\ streams'[1].pc = "sleep"
              /\ n >= maxConsecutiveErrors =>
                   /\ Len(streams'[1].iter) = 1
                   /\ streams'[1].last.type = "error"
                   /\ streams'[1].pc = "closed"
                   /\ jobs'[st.job].status = "failed"]_vars

\* C16: a non-ok answer outside the gateway class emits one error event at
\* once and polling goes on, until threshold-many such answers have come in a
\* row, which ends the stream.
C16_OtherErrorsSubjectToThreshold ==
  [][\A r \in ErrorRunResponses :
       (r.kind = "http" /\ ~isGateway(r.code) /\ Poll(1, 0, r)) =>
         /\ Len(streams'[1].iter) = 1
         /\ streams'[1].last.type = "error"
         /\ streams[1].otherErrors + 1 < maxConsecutiveErrors => streams'[1].pc = "sleep"
         /\ streams[1].otherErrors + 1 >= maxConsecutiveErrors => streams'[1].pc = "closed"]_vars

\* C17: the stream of a cache_hit job emits one url_complete event with
\* cached = true per url of crawledUrls, in list order, then one complete
\* event with total = the length of crawledUrls and creditsUsed = 0, and
\* nothing else; it makes no provider call and writes nothing to the job
\* store, the cache or the manifests.
C17_FastPathServesEveryUrl ==
  [][\A s \in Streams :
       (streams[s].pc = "idle" /\ streams'[s].pc # "idle"
          /\ jobs[streams'[s].job].status = "cache_hit") =>
         LET urls == jobs[streams'[s].job].crawledUrls
             evs == streams'[s].iter
         IN
         /\ streams'[s].pc = "closed"
         /\ Len(evs) = Len(urls) + 1
         /\ \A i \in 1..Len(urls) :
              /\ evs[i].type = "url_complete"
              /\ evs[i].url = urls[i]
              /\ evs[i].cached
         /\ evs[Len(evs)] = CompleteEvent(Len(urls), 0)
         /\ streams'[s].polls = 0
         /\ jobs' = jobs /\ cache' = cache /\ manifest' = manifest /\ results' = results]_vars

\* C18: every call to the provider, the job-creation POST of a start request
\* and every status poll of a stream, is made while the circuit breaker admits
\* requests.
C18_ProviderCallsGuarded ==
  [][/\ (requestStep("start") /\ resp'.calls > 0) => breakerStateAt(breaker, now) # "open"
     /\ \A r \in BreakerPollResponses :
          Poll(1, 0, r) => breakerStateAt(breaker, now) # "open"]_vars

\* The provider's answer to a start request is a failure: a 5xx status or a
\* network error.
failedStart(out) == out.kind = "throw" \/ (out.kind = "http" /\ out.code >= 500)

\* A start step fails fast: notAllowed is the status a request with a url
\* that is not allowed gets while the breaker is open and its timeout has not
\* elapsed, 503 the status of every other request.
failFast(notAllowed) ==
     \A url \in BreakerUrlInputs, force \in BOOLEAN, out \in StartOutcomes :
       startRequest(url, force, out) =>
         /\ (isValidDocumentationUrl(url.s) /\ breaker.state = "closed" /\ failedStart(out)) =>
              /\ resp'.calls = 1
              /\ breaker.failureCount + 1 < failureThreshold =>
                   /\ breaker'.state = "closed"
                   /\ breaker'.failureCount = breaker.failureCount + 1
              /\ breaker.failureCount + 1 >= failureThreshold =>
                   /\ breaker'.state = "open"
                   /\ breaker'.openedAt = now
         /\ (breaker.state = "open" /\ now - breaker.openedAt < breakerTimeout) =>
              /\ resp'.status = IF isValidDocumentationUrl(url.s) THEN 503 ELSE notAllowed
              /\ resp'.calls = 0
              /\ jobs' = jobs
              /\ breaker' = breaker

\* C19 as the specification states it: from a closed breaker, each start
\* request whose provider call fails with a 5xx status or a network error
\* raises the failure count, the failureThreshold-th in a row opens the
\* breaker, and every start request made while the breaker is open and its
\* timeout has not elapsed is answered 503, makes no provider call and writes
\* no job.
C19_EveryStartAnswered503 == [][failFast(503)]_vars

\* C19: the same, where a start request made while the breaker is open and
\* its timeout has not elapsed is answered 400 if its url is not allowed and
\* 503 otherwise, and in both cases makes no provider call and writes no job.
C19_FailFastWhenOpen == [][failFast(400)]_vars
\* A start request was answered 503 by the breaker that failureThreshold
\* failed start requests had opened.
C19_Witness ==
  /\ resp.op = "start" /\ resp.status = 503 /\ resp.calls = 0
  /\ breaker.state = "open" /\ breaker.failureCount = failureThreshold
  /\ nreq > failureThreshold
  /\ now - breaker.openedAt < breakerTimeout

\* C20: the start path holds a lock on the start url while it creates a
\* remote job, so no two start requests for one start url are creating a
\* remote job at the same time.
C20_OneJobCreationPerUrl ==
  \A a \in inflight, b \in inflight : a.req.url = b.req.url => a = b

\* The manifest of start url u is warm: it is not empty and the cache holds
\* every one of its urls.
warmManifest(u) ==
  /\ getCrawlUrlMap(manifest, u).present
  /\ Len(getCrawlUrlMap(manifest, u).urls) > 0
  /\ \A i \in 1..Len(getCrawlUrlMap(manifest, u).urls) :
       cacheGet(cache, getCrawlUrlMap(manifest, u).urls[i]) # NullContent
\* A start request for an allowed url with force unset and a warm manifest is
\* answered; breakerGates tells whether an open breaker rejects it first.
warmStart(breakerGates) ==
  \A url \in UrlInputs, out \in StartOutcomes :
    (/\ startRequest(url, FALSE, out)
     /\ url.kind = "string" /\ isValidDocumentationUrl(url.s)
     /\ warmManifest(url.s))
    => IF breakerGates /\ ~canRequest(breaker, now)
       THEN /\ resp'.status = 503 /\ resp'.calls = 0
            /\ jobs' = jobs /\ breaker' = breaker
       ELSE /\ resp'.status = 200 /\ resp'.cached /\ resp'.calls = 0
            /\ getCrawlJob(jobs', resp'.jobId).status = "cache_hit"
            /\ getCrawlJob(jobs', resp'.jobId).crawledUrls = getCrawlUrlMap(manifest, url.s).urls
            /\ breaker' = breaker

\* C21 as the specification states it: the start protocol consults the
\* manifest before the circuit breaker: a start request with an allowed url,
\* force unset and a warm manifest is answered 200 as a cache hit with a
\* cache_hit job and no provider call, whatever the breaker state.
C21_WarmManifestServedWhateverBreaker == [][warmStart(FALSE)]_vars

\* C21: the start protocol asks the circuit breaker before it consults the
\* manifest: a start request with an allowed url, force unset and a warm
\* manifest is answered 200 as a cache hit with a cache_hit job and no
\* provider call if the breaker admits requests, and is rejected with 503,
\* without a provider call or a job, if the breaker is open.
C21_WarmManifestServedIfBreakerAdmits == [][warmStart(TRUE)]_vars
\* A start request was served from a warm manifest while the breaker admits
\* requests.
C21_Witness ==
  /\ resp.op = "start" /\ resp.status = 200 /\ resp.cached /\ resp.calls = 0
  /\ warmManifest(resp.req.url.s) /\ canRequest(breaker, now)
  /\ getCrawlJob(jobs, resp.jobId).status = "cache_hit"

unexpiredGrants(l, k, t) == {g \in l.grants : g.resourceKey = k /\ t < g.expiresAt}
\* The same, among the tokens handed out while the durable tier was available.
unexpiredStoredGrants(l, k, t) == {g \in unexpiredGrants(l, k, t) : ~g.degraded}

C24_ReleaseCompareAndDelete ==
  [][\A k \in ResourceKeys, h \in 1..MaxHolders :
       Release(k, h) =>
         /\ (stored(locks, k, now) /\ locks.store[k].holderId # h)
              => (~locks'.last.ok /\ locks'.store = locks.store)
         /\ locks'.store # locks.store
              => /\ stored(locks, k, now) /\ locks.store[k].holderId = h
                 /\ locks'.last.ok /\ ~isLocked(locks', k, now')
                 /\ \A o \in ResourceKeys \ {k} : locks'.store[o] = locks.store[o]]_vars
\* A release with another holder's token returned false and the lock is
\* still held by its holder.
C24_Witness ==
  /\ locks.last.op = "release" /\ ~locks.last.ok
  /\ isLocked(locks, locks.last.resourceKey, now)
  /\ locks.store[locks.last.resourceKey].holderId # locks.last.holderId

\* The completion predicates as the specification lists them, on the answer
\* st.data evaluated at time t.
listedPredicates(st, t) ==
  \/ st.data.status = "completed"
  \/ st.data.status = "scraping" /\ st.data.next = "" /\ st.data.completed = st.data.total
  \/ t - st.lastProgressUpdate > maxStallTime /\ ratioAtLeast(st.data, 95)
  \/ /\ t - st.lastProgressUpdate > maxStallTime /\ ratioAtLeast(st.data, 80)
     /\ progressRateBelowMin(st, t)
  \/ t - st.lastProgressUpdate > absoluteMaxStallTime /\ ratioAtLeast(st.data, 50)
  \/ t - st.startTime > maxRunTime
\* The same, where the stall at 95% also needs no next cursor and the slow
\* progress at 80% also needs more than 10 completed pages.
guardedPredicates(st, t) ==
  \/ st.data.status = "completed"
  \/ st.data.status = "scraping" /\ st.data.next = "" /\ st.data.completed = st.data.total
  \/ /\ t - st.lastProgressUpdate > maxStallTime /\ ratioAtLeast(st.data, 95)
     /\ st.data.next = ""
  \/ /\ t - st.lastProgressUpdate > maxStallTime /\ ratioAtLeast(st.data, 80)
     /\ progressRateBelowMin(st, t) /\ st.data.completed > 10
  \/ t - st.lastProgressUpdate > absoluteMaxStallTime /\ ratioAtLeast(st.data, 50)
  \/ t - st.startTime > maxRunTime
\* A step of the polling stream in which it emits complete.
emitsComplete == streams[1].mode = "poll" /\ streams'[1].completes > streams[1].completes
\* The polling stream ends its poll iteration without a complete event.
pollsOn == Eval(1) /\ streams'[1].pc # "finishComplete"

\* C25 as the specification states it: a poll emits complete if and only if
\* it was answered successfully and one of the listed predicates holds on
\* the answer: status completed; scraping, no next cursor and completed =
\* total; stalled > 60 s at ratio >= 0.95; stalled > 60 s at ratio >= 0.80
\* with the completion rate below the floor; stalled > 120 s at ratio >= 0.5;
\* elapsed time above 8 minutes.
C25_CompleteIffListedPredicate ==
  [][/\ emitsComplete => streams[1].data.kind = "ok" /\ listedPredicates(streams[1], now)
     /\ pollsOn => ~listedPredicates(streams[1], now)]_vars

\* C25: a poll emits complete if and only if it was answered successfully
\* and one of these holds on the answer: status completed; scraping, no next
\* cursor and completed = total; stalled > 60 s at ratio >= 0.95 with no next
\* cursor; stalled > 60 s at ratio >= 0.80 with the completion rate below the
\* floor and more than 10 pages completed; stalled > 120 s at ratio >= 0.5;
\* elapsed time above 8 minutes. A job stalled at a ratio below 0.5 is not
\* declared complete before the 8-minute ceiling.
C25_CompleteIffGuardedPredicate ==
  [][/\ emitsComplete => streams[1].data.kind = "ok" /\ guardedPredicates(streams[1], now)
     /\ pollsOn => ~guardedPredicates(streams[1], now)
     /\ (/\ emitsComplete /\ ~ratioAtLeast(streams[1].data, 50)
         /\ streams[1].data.status = "scraping"
         /\ streams[1].data.completed # streams[1].data.total)
          => now - streams[1].startTime > maxRunTime]_vars
\* A stream stalled at 11 of 25 pages emitted complete, after the ceiling.
C25_Witness ==
  /\ streams[1].pc = "closed" /\ streams[1].completes = 1
  /\ streams[1].lastCompletedCount = 11
  /\ streams[1].closedAt - streams[1].startTime > maxRunTime
  /\ streams[1].closedAt - streams[1].lastProgressUpdate > absoluteMaxStallTime

\* C26: whenever a polling stream emits complete, the Job Store already
\* records status completed for its job and, when the stream's seen-set is
\* not empty, the manifest of the job's start url is exactly the seen-set.
C26_WritesBeforeComplete ==
  [][\A s \in Streams :
       (streams[s].mode = "poll" /\ streams'[s].completes > streams[s].completes)
       => /\ getCrawlJob(jobs, streams[s].job).status = "completed"
          /\ getCrawlJob(jobs', streams[s].job).status = "completed"
          /\ Len(streams[s].sentUrls) > 0
               => getCrawlUrlMap(manifest', streams[s].url)
                    = [present |-> TRUE, urls |-> streams[s].sentUrls]]_vars

\* The polled crawl of stream s completed with a seen-set that is not empty
\* and all of whose pages the cache holds: each was found there or stored.
paidFor(s) ==
  /\ streams[s].mode = "poll" /\ streams[s].pc = "closed" /\ streams[s].completes = 1
  /\ Len(streams[s].sentUrls) > 0
  /\ \A i \in 1..Len(streams[s].sentUrls) :
       cacheGet(cache, streams[s].sentUrls[i]) # NullContent

hitOnlyIfCached(n) ==
  \A url \in UrlInputs, force \in BOOLEAN, out \in StartOutcomes :
    (/\ Start(url, force, out)
     /\ resp'.status = 200
     /\ getCrawlJob(jobs', resp'.jobId).status = "cache_hit")
    => LET urls == getCrawlUrlMap(manifest, url.s).urls
           checked == IF n = 0 THEN Len(urls) ELSE Min(n, Len(urls))
       IN /\ ~force /\ Len(urls) > 0
          /\ \A i \in 1..checked : cacheGet(cache, urls[i]) # NullContent

newPages(st) ==
  {i \in 1..Len(st.data.data) :
     /\ st.data.data[i].sourceURL # ""
     /\ ~inSeq(st.sentUrls, st.data.data[i].sourceURL)
     /\ \A j \in 1..(i - 1) : st.data.data[j].sourceURL # st.data.data[i].sourceURL}
\* The events that a step appends to the output of stream s.
emitted(s) ==
  {streams'[s].iter[k] : k \in (Len(streams[s].iter) + 1)..Len(streams'[s].iter)}

\* C29: for each page of a poll answer whose source url is new to the stream,
\* if the cache holds the url a url_complete with cached = true and the cached
\* content is emitted and the entry is not written; otherwise content of at
\* least MIN_CONTENT_LENGTH is stored and a url_complete with cached = false
\* is emitted, and shorter content is not stored; no other entry is written.
C29_PerPageHandling ==
  [][\A s \in Streams :
       Pages(s) =>
         /\ \A i \in newPages(streams[s]) :
              LET url == streams[s].data.data[i].sourceURL
                  content == streams[s].data.data[i].markdown
              IN IF cacheGet(cache, url) # NullContent THEN
                   /\ UrlCompleteEvent(url, cacheGet(cache, url), TRUE) \in emitted(s)
                   /\ cacheGet(cache', url) = cacheGet(cache, url)
                 ELSE IF content.len >= MIN_CONTENT_LENGTH THEN
                   /\ cacheGet(cache', url) = content
                   /\ UrlCompleteEvent(url, content, FALSE) \in emitted(s)
                 ELSE cacheGet(cache', url) = NullContent
         /\ \A u \in PageUrls :
              (\A i \in newPages(streams[s]) : streams[s].data.data[i].sourceURL # u)
                => cacheGet(cache', u) = cacheGet(cache, u)]_vars
\* A poll answer was handled whose first page was served from the cache and
\* whose second page was stored.
C29_Witness ==
  \E s \in Streams :
    /\ streams[s].pc = "eval"
    /\ \E k \in 1..Len(streams[s].iter) : streams[s].iter[k] = UrlCompleteEvent(p1, LongA, TRUE)
    /\ \E k \in 1..Len(streams[s].iter) : streams[s].iter[k] = UrlCompleteEvent(p2, LongB, FALSE)
    /\ cacheGet(cache, p2) = LongB

\* C30: when a poll answer carries fresh content of at least
\* MIN_CONTENT_LENGTH for a page url that is new to the stream and already has
\* a cache entry, the entry is replaced by the fetched content.
C30_RefreshedOnRefetch ==
  [][\A s \in Streams :
       Pages(s) =>
         \A i \in newPages(streams[s]) :
           LET url == streams[s].data.data[i].sourceURL
               content == streams[s].data.data[i].markdown
           IN (cacheGet(cache, url) # NullContent /\ content.len >= MIN_CONTENT_LENGTH)
                => cacheGet(cache', url) = content]_vars

\* C31: a start request that calls the provider records a breaker failure
\* when the call throws or answers a status >= 500; it records a breaker
\* success, after storing the job, when a job id is returned; a 4xx answer or
\* a successful answer without job id records neither and stores no job.
C31_BreakerOutcomeReporting ==
  [][\A url \in BreakerUrlInputs, force \in BOOLEAN, out \in StartOutcomes :
       (startRequest(url, force, out) /\ resp'.calls = 1) =>
         CASE out.kind = "throw" \/ (out.kind = "http" /\ out.code >= 500) ->
                /\ breaker' = recordFailure(breaker, now) /\ breaker' # breaker
                /\ jobs' = jobs
           [] out.kind = "http" /\ out.code < 500 ->
                breaker' = breaker /\ jobs' = jobs
           [] out.kind = "nojob" ->
                breaker' = breaker /\ jobs' = jobs
           [] OTHER ->
                /\ breaker' = recordSuccess(breaker, now)
                /\ getCrawlJob(jobs', resp'.jobId).status = "crawling"
                /\ getCrawlJob(jobs, resp'.jobId).status = "absent"]_vars
\* A start request answered 429 by the provider left the one failure counted
\* before it as it was.
C31_Witness ==
  /\ resp.op = "start" /\ resp.status = 429 /\ resp.calls = 1
  /\ breaker.state = "closed" /\ breaker.failureCount = 1

\* The wait the specification gives for n consecutive errors.
backoff(n) == IF n = 0 THEN 2000 ELSE Min(2000 * 2 ^ (n - 1), 30000)

\* C32: after a poll that leaves the stream incomplete the wait before the
\* next poll is 2000 ms for a consecutive-error count n of 0 and
\* min(2000 * 2^(n-1), 30000) ms for n > 0; the wait never exceeds 30000 ms
\* and is non-decreasing in n.
C32_BackoffBetweenPolls ==
  [][Sleep(1) =>
       /\ now' - now = backoff(streams[1].consecutiveErrors)
       /\ \A n \in 0..(2 * maxConsecutiveErrors) :
            /\ delay(n) = backoff(n)
            /\ delay(n) <= 30000
            /\ \A m \in 0..n : delay(m) <= delay(n)]_vars
\* Four status requests in a row failed at once, and the stream waited 2, 4,
\* 8 and 16 seconds after them.
C32_Witness ==
  /\ streams[1].pc = "loop" /\ streams[1].consecutiveErrors = 4
  /\ now - streams[1].startTime = 2000 + 4000 + 8000 + 16000

\* C33: when a polling stream completes, the manifest of its job's start url
\* becomes exactly the stream's seen-set if that is not empty, whatever the
\* manifest held before, and no other manifest changes; if the seen-set is
\* empty no manifest changes.
C33_ManifestWholeValue ==
  [][\A s \in Streams :
       (streams[s].mode = "poll" /\ streams'[s].completes > streams[s].completes) =>
         IF Len(streams[s].sentUrls) > 0
         THEN /\ manifest'[streams[s].url] = [present |-> TRUE, urls |-> streams[s].sentUrls]
              /\ \A u \in StartUrlStrings \ {streams[s].url} : manifest'[u] = manifest[u]
         ELSE manifest' = manifest]_vars
\* A stream that saw only p1 completed after one that saw p1 and p2: the
\* manifest is [p1].
C33_Witness ==
  \E a \in Streams, b \in Streams :
    /\ streams[a].pc = "closed" /\ streams[a].completes = 1 /\ streams[a].sentUrls = <<p1, p2>>
    /\ streams[b].pc = "closed" /\ streams[b].completes = 1 /\ streams[b].sentUrls = <<p1>>
    /\ manifest[streams[b].url] = [present |-> TRUE, urls |-> <<p1>>]

\* C34: a start request with force set that passes url validation and the
\* breaker gate calls the provider and creates no cache_hit job, whatever the
\* manifest and the cache hold: its answer is the one the provider's answer
\* determines.
C34_ForceAlwaysCallsProvider ==
  [][\A url \in UrlInputs, out \in StartOutcomes :
       (/\ Start(url, TRUE, out)
        /\ url.kind = "string" /\ isValidDocumentationUrl(url.s)
        /\ canRequest(breaker, now))
       => /\ resp'.calls = 1 /\ ~resp'.cached
          /\ \A j \in JobIds : getCrawlJob(jobs', j).status = "cache_hit"
                                 => getCrawlJob(jobs, j).status = "cache_hit"
          /\ resp'.status = (IF out.kind \in {"job", "http"} THEN out.code ELSE 500)]_vars
\* A forced start request went to the provider although the manifest of its
\* start url was warm.
C34_Witness ==
  /\ resp.op = "start" /\ resp.req.force /\ resp.calls = 1 /\ resp.status = 200
  /\ warmManifest(resp.req.url.s)
  /\ getCrawlJob(jobs, resp.jobId).status = "crawling"

\* C35: the first poll of a stream goes to the next cursor stored for the job
\* when the stream started, or to the base job-status url if there was none;
\* after an answer carrying a next cursor the later polls go to the most
\* recent such cursor; an answer without a next cursor, or an error, never
\* sends a stream that polled a cursor back to the base job-status url.
C35_CursorSticky ==
  [][\A s \in Streams :
       /\ (OpenStream(s, 1) /\ streams'[s].mode = "poll")
            => streams'[s].next = getCrawlJob(jobs, 1).next
       /\ \A r \in CursorResponses :
            Poll(s, 0, r) =>
              /\ streams'[s].statusUrl
                   = (IF streams[s].next # "" THEN streams[s].next ELSE baseStatusUrl)
              /\ streams[s].statusUrl \in Cursors => streams'[s].statusUrl \in Cursors
              /\ streams'[s].next = streams[s].next
       /\ (Eval(s) /\ streams'[s].pc = "sleep")
            => streams'[s].next
                 = (IF streams[s].data.next # "" THEN streams[s].data.next ELSE streams[s].next)
       /\ Sleep(s) => streams'[s].next = streams[s].next]_vars
\* A stream whose earlier answers carried the cursors cursor and then cursor2
\* polled cursor2 and, after an answer without cursor, is about to poll
\* cursor2 again.
C35_Witness ==
  \E s \in Streams :
    /\ streams[s].pc = "loop" /\ streams[s].statusUrl = "cursor2"
    /\ streams[s].next = "cursor2" /\ getCrawlJob(jobs, 1).next = ""
    /\ \A o \in Streams \ {s} : streams[o].pc = "idle"

\* C36: when the completion predicates are evaluated after a successful poll
\* the progress rate is not positive, since lastCompletedCount is at least
\* the reported completed count; so the slow-progress condition holds exactly
\* when completed > 10, and the fourth completion predicate holds exactly
\* when the stream has stalled more than 60 s at a ratio >= 0.80 with
\* completed > 10.
C36_ProgressRateNeverPositive ==
  \A s \in Streams :
    streams[s].pc = "eval" =>
      LET st == streams[s] IN
      /\ truthy(st.data.completed) => st.data.completed - st.lastCompletedCount <= 0
      /\ progressRateBelowMin(st, now)
      /\ isMakingSlowProgress(st, now) <=> st.data.completed > 10
      /\ (hasStalled(st, now) /\ ratioAtLeast(st.data, 80) /\ isMakingSlowProgress(st, now))
           <=> (/\ now - st.lastProgressUpdate > 60000
                /\ 100 * st.data.completed >= 80 * st.data.total /\ st.data.total > 0
                /\ st.data.completed > 10)
\* The fourth predicate holds: the stream has stalled more than 60 s at 20 of
\* 25 pages, before the 120 s window.
C36_Witness ==
  /\ streams[1].pc = "eval" /\ streams[1].data.completed = 20 /\ streams[1].data.total = 25
  /\ now - streams[1].lastProgressUpdate > maxStallTime
  /\ now - streams[1].lastProgressUpdate <= absoluteMaxStallTime
  /\ isMakingSlowProgress(streams[1], now)

\* The answer reports status scraping, no next cursor and completed = total.
scrapingDone(data) ==
  data.kind = "ok" /\ data.status = "scraping" /\ data.next = "" /\ data.completed = data.total

\* C37: a successful poll that reports scraping, no next cursor and
\* completed = total completes the stream in the same iteration, also when
\* both are 0 or absent on the first poll: the job is marked completed, and
\* the complete event then carries total 0 and, the seen-set being empty, no
\* manifest is written.
C37_CompletedEqualsTotalCompletes ==
  [][\A s \in Streams :
       /\ (Eval(s) /\ scrapingDone(streams[s].data))
            => /\ streams'[s].pc = "finishComplete" /\ streams'[s].isComplete
               /\ getCrawlJob(jobs', streams[s].job).status = "completed"
       /\ (streams[s].pc = "finishComplete" /\ scrapingDone(streams[s].data))
            => (streams'[s] # streams[s] => streams'[s].completes = streams[s].completes + 1)
       /\ (/\ streams'[s].completes > streams[s].completes
           /\ scrapingDone(streams[s].data) /\ ~truthy(streams[s].data.total))
            => /\ streams'[s].last = CompleteEvent(0, 0)
               /\ streams'[s].pc = "closed"
               /\ streams[s].sentUrls = <<>> => manifest' = manifest]_vars
\* The first poll of a stream reported 0 of 0 pages and the stream completed
\* with total 0, an empty seen-set and no manifest.
C37_Witness ==
  /\ streams[1].pc = "closed" /\ streams[1].completes = 1 /\ streams[1].polls = 1
  /\ streams[1].last = CompleteEvent(0, 0) /\ streams[1].sentUrls = <<>>
  /\ streams[2].pc = "idle"
  /\ getCrawlJob(jobs, 1).status = "completed" /\ getCrawlJob(jobs, 1).totalPages = 0
  /\ ~getCrawlUrlMap(manifest, DocUrl).present

\* C38: a stream emits at most one complete event; once it has emitted it the
\* stream is closed and takes no further step, so it emits no event and makes
\* no poll; and every write to the Job Store, the cache or the manifests and
\* every poll that is not a start request's is a step of a stream that has
\* emitted no complete event.
C38_NothingAfterComplete ==
  [][/\ \A s \in Streams :
          /\ streams'[s].completes <= 1
          /\ streams[s].completes >= 1
               => streams[s].pc = "closed" /\ streams'[s] = streams[s]
     /\ (/\ nreq' = nreq
         /\ <<jobs', cache', manifest', results', now'>> # <<jobs, cache, manifest, results, now>>)
          => \E s \in Streams : streams'[s] # streams[s] /\ streams[s].completes = 0]_vars
\* A polling stream and, after it, a fast-path stream each emitted one
\* complete event and are closed.
C38_Witness ==
  /\ streams[1].mode = "poll" /\ streams[1].completes = 1 /\ streams[1].pc = "closed"
  /\ streams[1].last.type = "complete"
  /\ streams[2].mode = "fast" /\ streams[2].completes = 1 /\ streams[2].pc = "closed"
  /\ streams[2].last.type = "complete"

====
